---- MODULE Spec2Model ----
(***************************************************************************)
(* Model of app.py: the hexagonal sensor grid generator                    *)
(* (generate_hex_grid_from_geojson) and the dashboard callbacks            *)
(* (update_map, update_insights, show_sensor_detail).                      *)
(*                                                                         *)
(* Number representation.  The source computes with doubles.  The model    *)
(* uses integers on a lattice on which every quantity the code compares    *)
(* is exact:                                                               *)
(*   - a longitude is held as 2*lon, so hex_width = 1.5*hex_size is        *)
(*     3*hex_size;                                                         *)
(*   - a latitude is held in units of sqrt(3)/2, so hex_height =           *)
(*     sqrt(3)*hex_size is 2*hex_size and the odd-column shift is          *)
(*     hex_size;                                                           *)
(*   - an area is held as twice the area in these units; the scaling is    *)
(*     affine, so the ratio intersection_area/hexagon_area is the ratio    *)
(*     of the source;                                                      *)
(*   - temperature, humidity and co2 are rounded to 2 decimals by the      *)
(*     source and are held in hundredths.                                  *)
(* The boundary polygon is an axis-parallel rectangle with lattice         *)
(* corners, for which shapely's intersection area has the closed form      *)
(* InterArea2 below.                                                       *)
(***************************************************************************)
EXTENDS Integers, Sequences, FiniteSets, TLC

VARIABLES
    \* ---- one call of generate_hex_grid_from_geojson ----
    geojson_data,    \* the parameter: the exterior ring of the first feature
    hex_size,        \* the parameter hex_size
    pc,              \* position in the function body
    col, lon, lat,   \* locals of the tiling loops
    lon_points, lat_points,
    k,               \* position of the zip() iteration of the clip loop
    features, centers,
    temp_values, hum_values, co2_values, smoke_values, battery_values,
    grid_id,
    result,          \* the returned (df_grid, grid_geojson), None before return
    previous,        \* what the preceding call with the same arguments returned
    calls,           \* number of calls started
    \* ---- the dashboard ----
    map_geojson,     \* the ring held by the file map.geojson
    grid_store,      \* dcc.Store "grid-store": None or the table as JSON
    map_chart,       \* dcc.Graph "map-chart": None or the figure
    clickData,       \* the clickData property of map-chart
    triggered,       \* callback_context.triggered of the next update_map run
    pending,         \* callbacks the framework has still to run
    insights,        \* what update_insights returned last
    detail           \* what show_sensor_detail returned last

gen_vars == <<geojson_data, hex_size, pc, col, lon, lat, lon_points, lat_points,
              k, features, centers, temp_values, hum_values, co2_values,
              smoke_values, battery_values, grid_id, result, previous, calls>>

app_vars == <<map_geojson, grid_store, map_chart, clickData, triggered, pending,
              insights, detail>>

vars == <<gen_vars, app_vars>>

\* Python's None.
None == [none |-> TRUE]

\* ------------------------------------------------------------------ bounds
MaxLon == 8      \* largest max_lon of a boundary rectangle (lattice units)
MaxLat == 4      \* largest max_lat of a boundary rectangle (lattice units)
MaxCalls == 2    \* calls of the generator in one behaviour

\* Caps that stop the tiling loops of a run that never terminates. Every run
\* with hex_size > 0 stays strictly below both.
PointCap == ((MaxLon \div 3) + 2) * ((MaxLat \div 2) + 2)
ColCap == (MaxLon \div 3) + 3

HexSizes == {-4, -1, 0, 1, 2}

\* ----------------------------------------------------------------- helpers
Abs(x) == IF x < 0 THEN -x ELSE x
Min(a, b) == IF a <= b THEN a ELSE b
Max(a, b) == IF a >= b THEN a ELSE b

RECURSIVE SumFromTo(_, _, _)
SumFromTo(f(_), a, b) == IF a > b THEN 0 ELSE f(a) + SumFromTo(f, a + 1, b)

\* The rings the boundary file may hold: rectangles [0,w] x [0,h].
Rectangle(w, h) == << <<0, 0>>, <<0, h>>, <<w, h>>, <<w, 0>> >>
Boundaries == { Rectangle(w, h) : w \in 1..MaxLon, h \in 1..MaxLat }

\* polygon_shape.bounds
bounds(ring) ==
    LET xs == { ring[i][1] : i \in DOMAIN ring }
        ys == { ring[i][2] : i \in DOMAIN ring }
    IN [min_lon |-> CHOOSE x \in xs : \A y \in xs : x <= y,
        min_lat |-> CHOOSE x \in ys : \A y \in ys : x <= y,
        max_lon |-> CHOOSE x \in xs : \A y \in xs : x >= y,
        max_lat |-> CHOOSE x \in ys : \A y \in ys : x >= y]

hex_width(size) == 3 * size       \* 1.5 * hex_size, as 2*lon
hex_height(size) == 2 * size      \* sqrt(3) * hex_size, in units of sqrt(3)/2

\* lat_shift with the parity test inverted, a plausible slip.
lat_shift_even_columns(c, size) == IF c % 2 = 0 THEN size ELSE 0

\* lat_shift of a column
lat_shift(c, size) == IF c % 2 = 1 THEN size ELSE 0    \* 0.5 * hex_height

\* hexagon_flat: 7 points at 0, 60, ..., 300, 0 degrees.
\* 2*cos: 2, 1, -1, -2, -1, 1, 2;  sin/(sqrt(3)/2): 0, 1, 1, 0, -1, -1, 0.
hexagon_flat(center_lon, center_lat, size) ==
    LET cos2 == <<2, 1, -1, -2, -1, 1, 2>>
        sin2 == <<0, 1, 1, 0, -1, -1, 0>>
    IN [a \in 1..7 |-> <<center_lon + size * cos2[a], center_lat + size * sin2[a]>>]

\* Half the vertical extent of the hexagon at horizontal offset t of its centre.
HalfHeight(t, size) ==
    LET s == Abs(size) IN IF Abs(t) <= s THEN s ELSE 2 * s - Abs(t)

\* Signed length of the vertical chord of hexagon /\ rectangle at abscissa x.
Chord(x, center_lon, center_lat, size, b) ==
    LET hh == HalfHeight(x - center_lon, size)
    IN Min(b.max_lat, center_lat + hh) - Max(b.min_lat, center_lat - hh)

\* hex_poly.area (twice the area): 6 * size^2.
HexArea2(size) == 12 * size * size

\* hex_poly.intersection(polygon_shape).is_empty: the closed hexagon and the
\* closed rectangle share no point. The chord is concave and piecewise linear
\* with lattice breakpoints, so a lattice abscissa decides it.
is_empty(center_lon, center_lat, size, b) ==
    LET lo == Max(b.min_lon, center_lon - 2 * Abs(size))
        hi == Min(b.max_lon, center_lon + 2 * Abs(size))
    IN ~ \E x \in lo..hi : Chord(x, center_lon, center_lat, size, b) >= 0

\* hex_poly.intersection(polygon_shape).area (twice the area): the integral of
\* the positive part of the chord, exact by the trapezoid rule on unit steps.
InterArea2(center_lon, center_lat, size, b) ==
    LET lo == Max(b.min_lon, center_lon - 2 * Abs(size))
        hi == Min(b.max_lon, center_lon + 2 * Abs(size))
        c(x) == Max(0, Chord(x, center_lon, center_lat, size, b))
        trapezoid(x) == c(x) + c(x + 1)
    IN SumFromTo(trapezoid, lo, hi - 1)

\* The test of line 44 with the test weakened to >=, a plausible slip.
AcceptsAtLeastHalf(center_lon, center_lat, size, b) ==
    /\ ~ is_empty(center_lon, center_lat, size, b)
    /\ 2 * InterArea2(center_lon, center_lat, size, b) >= HexArea2(size)

\* Line 44: not inter.is_empty and inter.area / hex_poly.area > 0.5.
\* The conjunction short-circuits, so the quotient is taken of a non-empty
\* intersection only; area/hex_area > 1/2 is 2*area > hex_area.
Accepts(center_lon, center_lat, size, b) ==
    /\ ~ is_empty(center_lon, center_lat, size, b)
    /\ 2 * InterArea2(center_lon, center_lat, size, b) > HexArea2(size)

\* The random draws one accepted cell consumes (lines 51-55): randn()*3,
\* randn()*5 and randn()*10 in hundredths, randint(10,100), randint(20,100).
Draws ==
    { [zt |-> -300, zh |-> 512,  zc |-> 0,    smoke |-> 10, battery |-> 20],
      [zt |-> 701,  zh |-> -350, zc |-> 5001, smoke |-> 99, battery |-> 99] }

\* Lines 51-53: the metric values of the cell that gets grid id g.
temperature_of(g, d) == 2500 + d.zt + 100 * (g % 5)
humidity_of(g, d) == 6000 + d.zh - 100 * (g % 3)
co2_of(g, d) == 35000 + d.zc + 500 * (g % 7)

\* Lines 45-49: the feature of an accepted cell.
Feature(g, center_lon, center_lat, size) ==
    [coordinates |-> hexagon_flat(center_lon, center_lat, size),
     properties |-> [grid_id |-> g, center_lon |-> center_lon, center_lat |-> center_lat]]

\* The id the next accepted cell gets, advanced on every candidate: a slip.
NextGridIdEveryCandidate(g, accepted) == g + 1

\* Line 56: grid_id += 1 inside the if.
NextGridId(g, accepted) == IF accepted THEN g + 1 ELSE g

\* Lines 59-68: the DataFrame, one row per position of the value lists.
DataFrame(n, temps, hums, co2s, smokes, batteries, cs) ==
    [i \in 1..n |->
        [grid_id |-> i - 1,
         temperature |-> temps[i], humidity |-> hums[i], co2 |-> co2s[i],
         smoke |-> smokes[i], battery |-> batteries[i],
         center_lat |-> cs[i][1], center_lon |-> cs[i][2]]]

\* Line 39: grid_id = 0.
FirstGridId == 0

\* The feature list kept from the preceding call (a module-level list) instead
\* of a fresh one: a slip.
FeaturesCarried == IF result = None THEN <<>> ELSE features

\* Line 38: features = [].
NoFeatures == <<>>

\* ------------------------------------------- generate_hex_grid_from_geojson
\* lat is unbound until line 25 gives it min_lat and is not read before; it is
\* held as that value from the start.
Locals0(ring) ==
    /\ pc = "outer" /\ col = 0 /\ lon = bounds(ring).min_lon
    /\ lat = bounds(ring).min_lat
    /\ lon_points = <<>> /\ lat_points = <<>> /\ k = 1
    /\ features = NoFeatures /\ centers = <<>>
    /\ temp_values = <<>> /\ hum_values = <<>> /\ co2_values = <<>>
    /\ smoke_values = <<>> /\ battery_values = <<>>
    /\ grid_id = FirstGridId /\ result = None

GenInit ==
    /\ geojson_data \in Boundaries
    /\ hex_size \in HexSizes
    /\ previous = None
    /\ result = None
    /\ Locals0(geojson_data)
    /\ calls = 1

\* Line 24: while lon < max_lon + hex_width; line 25 on entry.
OuterTest ==
    /\ pc = "outer"
    /\ IF lon < bounds(geojson_data).max_lon + hex_width(hex_size)
       THEN /\ lat' = bounds(geojson_data).min_lat
            /\ pc' = "inner"
       ELSE /\ pc' = "clip"
            /\ lat' = lat
    /\ UNCHANGED <<geojson_data, hex_size, col, lon, lon_points, lat_points, k,
                   features, centers, temp_values, hum_values, co2_values,
                   smoke_values, battery_values, grid_id, result, previous, calls, app_vars>>

\* Lines 26-30: one iteration of the inner loop.
InnerBody ==
    /\ pc = "inner"
    /\ lat < bounds(geojson_data).max_lat + hex_height(hex_size)
    /\ Len(lon_points) < PointCap
    /\ lon_points' = Append(lon_points, lon)
    /\ lat_points' = Append(lat_points, lat + lat_shift(col, hex_size))
    /\ lat' = lat + hex_height(hex_size)
    /\ UNCHANGED <<geojson_data, hex_size, pc, col, lon, k,
                   features, centers, temp_values, hum_values, co2_values,
                   smoke_values, battery_values, grid_id, result, previous, calls, app_vars>>

\* Line 26 false, lines 31-32: the column is finished.
InnerExit ==
    /\ pc = "inner"
    /\ ~ (lat < bounds(geojson_data).max_lat + hex_height(hex_size))
    /\ col < ColCap
    /\ lon' = lon + hex_width(hex_size)
    /\ col' = col + 1
    /\ pc' = "outer"
    /\ UNCHANGED <<geojson_data, hex_size, lat, lon_points, lat_points, k,
                   features, centers, temp_values, hum_values, co2_values,
                   smoke_values, battery_values, grid_id, result, previous, calls, app_vars>>

\* Lines 40-56: one iteration of the clip loop over zip(lon_points, lat_points).
ClipStep ==
    /\ pc = "clip"
    /\ k <= Min(Len(lon_points), Len(lat_points))
    /\ LET center_lon == lon_points[k]
           center_lat == lat_points[k]
           accepted == Accepts(center_lon, center_lat, hex_size, bounds(geojson_data))
       IN /\ IF accepted
             THEN \E d \in Draws :
                    /\ features' = Append(features,
                                     Feature(grid_id, center_lon, center_lat, hex_size))
                    /\ centers' = Append(centers, <<center_lat, center_lon>>)
                    /\ temp_values' = Append(temp_values, temperature_of(grid_id, d))
                    /\ hum_values' = Append(hum_values, humidity_of(grid_id, d))
                    /\ co2_values' = Append(co2_values, co2_of(grid_id, d))
                    /\ smoke_values' = Append(smoke_values, d.smoke)
                    /\ battery_values' = Append(battery_values, d.battery)
             ELSE UNCHANGED <<features, centers, temp_values, hum_values,
                              co2_values, smoke_values, battery_values>>
          /\ grid_id' = NextGridId(grid_id, accepted)
    /\ k' = k + 1
    /\ UNCHANGED <<geojson_data, hex_size, pc, col, lon, lat, lon_points,
                   lat_points, result, previous, calls, app_vars>>

\* Lines 58-69: build grid_geojson and df_grid and return them.
Return ==
    /\ pc = "clip"
    /\ k > Min(Len(lon_points), Len(lat_points))
    /\ result' = [grid_geojson |-> features,
                  df_grid |-> DataFrame(grid_id, temp_values, hum_values, co2_values,
                                        smoke_values, battery_values, centers)]
    /\ pc' = "done"
    /\ UNCHANGED <<geojson_data, hex_size, col, lon, lat, lon_points, lat_points, k,
                   features, centers, temp_values, hum_values, co2_values,
                   smoke_values, battery_values, grid_id, previous, calls, app_vars>>

\* The caller calls again with the same arguments (a regeneration).
CallAgain ==
    /\ pc = "done"
    /\ calls < MaxCalls
    /\ previous' = result
    /\ calls' = calls + 1
    /\ pc' = "outer" /\ col' = 0 /\ lon' = bounds(geojson_data).min_lon
    /\ lat' = bounds(geojson_data).min_lat
    /\ lon_points' = <<>> /\ lat_points' = <<>> /\ k' = 1
    /\ features' = NoFeatures /\ centers' = <<>>
    /\ temp_values' = <<>> /\ hum_values' = <<>> /\ co2_values' = <<>>
    /\ smoke_values' = <<>> /\ battery_values' = <<>>
    /\ grid_id' = FirstGridId /\ result' = None
    /\ UNCHANGED <<geojson_data, hex_size, app_vars>>

GenNext == OuterTest \/ InnerBody \/ InnerExit \/ ClipStep \/ Return \/ CallAgain

\* ------------------------------------------------------------ the dashboard
\* Lines 329-331, 372, 385, 395: the thresholds and list lengths.
HighTemperature == 32
HighCo2 == 400
HighSmoke == 70
TopTemperatureRows == 5
LowBattery == 30
LowBatteryRows == 5

Columns == <<"grid_id", "temperature", "humidity", "co2", "smoke", "battery",
             "center_lat", "center_lon">>

\* Line 311: df_grid.to_json(orient="split"): the column names, the index and
\* one list of values per row.
to_json(df) ==
    [columns |-> Columns,
     index |-> [i \in 1..Len(df) |-> i - 1],
     data |-> [i \in 1..Len(df) |-> [c \in 1..Len(Columns) |-> df[i][Columns[c]]]]]

\* Lines 325, 478: pd.read_json(grid_json, orient="split"): one row per list of
\* "data", each value under the name at its position of "columns".
read_json(grid_json) ==
    LET names == { grid_json.columns[c] : c \in 1..Len(grid_json.columns) }
        position == [name \in names |->
                        CHOOSE c \in 1..Len(grid_json.columns) : grid_json.columns[c] = name]
    IN [i \in 1..Len(grid_json.data) |->
          [name \in names |-> grid_json.data[i][position[name]]]]

\* A value of a metric column in the unit of its threshold: temperature and
\* co2 are held in hundredths.
Scale(column) == IF column \in {"temperature", "humidity", "co2"} THEN 100 ELSE 1

\* df[df[column] >= threshold]: a slip.
AtLeast(df, column, threshold) ==
    SelectSeq(df, LAMBDA row : row[column] >= threshold * Scale(column))

\* Lines 329-331: df[df[column] > threshold], rows in their order.
Above(df, column, threshold) ==
    SelectSeq(df, LAMBDA row : row[column] > threshold * Scale(column))

\* Line 385: df[df[column] < threshold], rows in their order.
Below(df, column, threshold) ==
    SelectSeq(df, LAMBDA row : row[column] < threshold * Scale(column))

\* The rows of df sorted by column, descending; rows of equal value keep
\* their order (pandas selects with a stable mergesort, keep="first").
RECURSIVE SortDescending(_, _)
SortDescending(df, column) ==
    IF df = <<>> THEN <<>>
    ELSE LET n == Len(df)
             sorted == SortDescending(SubSeq(df, 1, n - 1), column)
             p == Cardinality({ i \in 1..Len(sorted) : sorted[i][column] >= df[n][column] })
         IN SubSeq(sorted, 1, p) \o << df[n] >> \o SubSeq(sorted, p + 1, Len(sorted))

\* nlargest that keeps the last of equal rows (keep="last"): a slip.
nlargest_keep_last(n, df, column) ==
    LET reversed == [i \in 1..Len(df) |-> df[Len(df) + 1 - i]]
        sorted == SortDescending(reversed, column)
    IN SubSeq(sorted, 1, Min(n, Len(sorted)))

\* Lines 334, 344, 354, 372: df.nlargest(n, column).
nlargest(n, df, column) ==
    LET sorted == SortDescending(df, column)
    IN SubSeq(sorted, 1, Min(n, Len(sorted)))

\* The two orders an unstable sort may leave rows of equal value in.
TieOrders == {"kept", "reversed"}

\* df.sort_values(column), descending: a slip.
RECURSIVE sort_values_descending(_, _, _)
sort_values_descending(df, column, ties) ==
    IF df = <<>> THEN <<>>
    ELSE LET n == Len(df)
             sorted == sort_values_descending(SubSeq(df, 1, n - 1), column, ties)
             p == Cardinality({ i \in 1..Len(sorted) :
                                  \/ sorted[i][column] > df[n][column]
                                  \/ ties = "kept" /\ sorted[i][column] = df[n][column] })
         IN SubSeq(sorted, 1, p) \o << df[n] >> \o SubSeq(sorted, p + 1, Len(sorted))

\* Line 385: df.sort_values(column): ascending, by the default quicksort, which
\* is not stable.
RECURSIVE sort_values(_, _, _)
sort_values(df, column, ties) ==
    IF df = <<>> THEN <<>>
    ELSE LET n == Len(df)
             sorted == sort_values(SubSeq(df, 1, n - 1), column, ties)
             p == Cardinality({ i \in 1..Len(sorted) :
                                  \/ sorted[i][column] < df[n][column]
                                  \/ ties = "kept" /\ sorted[i][column] = df[n][column] })
         IN SubSeq(sorted, 1, p) \o << df[n] >> \o SubSeq(sorted, p + 1, Len(sorted))

\* Line 395: low_batt.head(n).
head(df, n) == SubSeq(df, 1, Min(n, Len(df)))

\* Lines 333-361: the alert of one threshold scan, or none.
ScanAlert(df, column, threshold) ==
    LET high == Above(df, column, threshold)
    IN IF Len(high) > 0
       THEN LET top_sensor == nlargest(1, high, column)[1]
            IN << [kind |-> column, count |-> Len(high),
                   grid_id |-> top_sensor.grid_id, value |-> top_sensor[column]] >>
       ELSE <<>>

\* The nominal alert appended in any case: a slip.
CriticalAlwaysNominal(df) ==
    ScanAlert(df, "temperature", HighTemperature)
        \o ScanAlert(df, "co2", HighCo2)
        \o ScanAlert(df, "smoke", HighSmoke)
        \o << [kind |-> "nominal"] >>

\* Lines 328-369: the list of alerts.
Critical(df) ==
    LET critical == ScanAlert(df, "temperature", HighTemperature)
                        \o ScanAlert(df, "co2", HighCo2)
                        \o ScanAlert(df, "smoke", HighSmoke)
    IN IF critical = <<>> THEN << [kind |-> "nominal"] >> ELSE critical

\* Lines 372-382: the items of the top temperature list.
TopTemperature(df) ==
    LET top_temp == nlargest(TopTemperatureRows, df, "temperature")
    IN [i \in 1..Len(top_temp) |->
          [grid_id |-> top_temp[i].grid_id, temperature |-> top_temp[i].temperature]]

\* Lines 385-403: the items of the low battery list.
BatteryItems(df, ties) ==
    LET low_batt == sort_values(Below(df, "battery", LowBattery), "battery", ties)
    IN IF Len(low_batt) > 0
       THEN LET shown == head(low_batt, LowBatteryRows)
            IN [i \in 1..Len(shown) |->
                  [kind |-> "sensor", grid_id |-> shown[i].grid_id,
                   battery |-> shown[i].battery]]
       ELSE << [kind |-> "all_good"] >>

RECURSIVE ColumnSum(_, _)
ColumnSum(df, column) ==
    IF df = <<>> THEN 0 ELSE df[1][column] + ColumnSum(Tail(df), column)

\* Lines 406-431: the statistics; a mean is held as the pair (sum, count).
Statistics(df) ==
    [temperature_sum |-> ColumnSum(df, "temperature"),
     humidity_sum |-> ColumnSum(df, "humidity"),
     co2_sum |-> ColumnSum(df, "co2"),
     total |-> Len(df)]

Loading == [loading |-> TRUE]

\* Lines 321-433: the callback of grid-store.
update_insights ==
    /\ "update_insights" \in pending
    /\ pending' = pending \ {"update_insights"}
    /\ IF grid_store = None
       THEN insights' = Loading
       ELSE \E ties \in TieOrders :
              LET df == read_json(grid_store)
              IN insights' = [critical |-> Critical(df),
                              top_temperature |-> TopTemperature(df),
                              low_battery |-> BatteryItems(df, ties),
                              statistics |-> Statistics(df)]
    /\ UNCHANGED <<gen_vars, map_geojson, grid_store, map_chart, clickData, triggered,
                   detail>>

\* ---- the aggregations of update_insights on stored tables ----
MaxRows == 6     \* largest number of rows of a stored table

\* Metric values of one row: at and around each threshold.
RowValues ==
    { [temperature |-> 3200, humidity |-> 6000, co2 |-> 40000, smoke |-> 70, battery |-> 30],
      [temperature |-> 3201, humidity |-> 5900, co2 |-> 40000, smoke |-> 70, battery |-> 29],
      [temperature |-> 3100, humidity |-> 6100, co2 |-> 40001, smoke |-> 70, battery |-> 20],
      [temperature |-> 3200, humidity |-> 6000, co2 |-> 39999, smoke |-> 71, battery |-> 99],
      [temperature |-> 3450, humidity |-> 5500, co2 |-> 40550, smoke |-> 99, battery |-> 29] }

\* The table with the given metric values, as generate_hex_grid_from_geojson
\* lays it out.
TableOf(rows) ==
    DataFrame(Len(rows),
              [i \in 1..Len(rows) |-> rows[i].temperature],
              [i \in 1..Len(rows) |-> rows[i].humidity],
              [i \in 1..Len(rows) |-> rows[i].co2],
              [i \in 1..Len(rows) |-> rows[i].smoke],
              [i \in 1..Len(rows) |-> rows[i].battery],
              [i \in 1..Len(rows) |-> <<i, 3 * i>>])

InsightsInit ==
    /\ geojson_data = Rectangle(1, 1) /\ hex_size = 1
    /\ previous = None /\ result = None /\ calls = 1
    /\ Locals0(geojson_data)
    /\ map_geojson = geojson_data
    /\ \/ grid_store = None
       \/ \E n \in 0..MaxRows : \E rows \in [1..n -> RowValues] :
             grid_store = to_json(TableOf(rows))
    /\ map_chart = None /\ clickData = None /\ triggered = <<>>
    /\ pending = {"update_insights"} /\ insights = None /\ detail = None

InsightsNext == update_insights

SpecInsights == InsightsInit /\ [][InsightsNext]_vars

\* ---- the callbacks of the map and of the selection ----
\* Line 13: the default hex_size (0.001 degrees), one lattice unit.
DefaultHexSize == 1

\* The rings map.geojson holds over time.
FileRings == { Rectangle(6, 4), Rectangle(4, 2), Rectangle(1, 1) }

\* Lines 26-30: the points of one column, from latitude lat upwards.
RECURSIVE ColumnPoints(_, _, _, _, _)
ColumnPoints(from_lat, at_lon, c, size, b) ==
    IF from_lat < b.max_lat + hex_height(size)
    THEN << <<at_lon, from_lat + lat_shift(c, size)>> >>
            \o ColumnPoints(from_lat + hex_height(size), at_lon, c, size, b)
    ELSE <<>>

\* Lines 24-32: the points of column c and of the columns right of it.
RECURSIVE SweepPoints(_, _, _, _)
SweepPoints(from_lon, c, size, b) ==
    IF from_lon < b.max_lon + hex_width(size)
    THEN ColumnPoints(b.min_lat, from_lon, c, size, b)
            \o SweepPoints(from_lon + hex_width(size), c + 1, size, b)
    ELSE <<>>

\* Lines 13-69 as one call with hex_size > 0: ds[i] are the draws of the i-th
\* accepted cell.
AcceptedPoints(ring, size) ==
    SelectSeq(SweepPoints(bounds(ring).min_lon, 0, size, bounds(ring)),
              LAMBDA p : Accepts(p[1], p[2], size, bounds(ring)))

\* Lines 45-69: the features and the table of the accepted points acc.
Assemble(acc, ring, size, ds) ==
    LET n == Len(acc)
    IN [grid_geojson |-> [i \in 1..n |-> Feature(i - 1, acc[i][1], acc[i][2], size)],
        df_grid |-> DataFrame(n,
                        [i \in 1..n |-> temperature_of(i - 1, ds[i])],
                        [i \in 1..n |-> humidity_of(i - 1, ds[i])],
                        [i \in 1..n |-> co2_of(i - 1, ds[i])],
                        [i \in 1..n |-> ds[i].smoke],
                        [i \in 1..n |-> ds[i].battery],
                        [i \in 1..n |-> <<acc[i][2], acc[i][1]>>]),
        polygon_coords |-> ring]

generate_hex_grid_from_geojson(ring, size, ds) ==
    Assemble(AcceptedPoints(ring, size), ring, size, ds)

\* The accepted points of each ring of the file at the default hex_size,
\* computed once.
AcceptedInFile == [ring \in FileRings |-> AcceptedPoints(ring, DefaultHexSize)]

\* Lines 224-230, 237-251: the static lookups of update_map.
filter_map ==
    [id \in {"filter-temp", "filter-hum", "filter-co2", "filter-smoke", "filter-battery"} |->
        CASE id = "filter-temp" -> "temperature"
          [] id = "filter-hum" -> "humidity"
          [] id = "filter-co2" -> "co2"
          [] id = "filter-smoke" -> "smoke"
          [] id = "filter-battery" -> "battery"]

color_scales ==
    [m \in {"temperature", "humidity", "co2", "smoke", "battery"} |->
        CASE m = "temperature" -> "Reds"
          [] m = "humidity" -> "Blues_r"
          [] m = "co2" -> "YlOrRd"
          [] m = "smoke" -> "Oranges"
          [] m = "battery" -> "RdYlGn"]

\* Lines 245-251: the labels of the metrics (the text without its diacritics).
titles ==
    [m \in {"temperature", "humidity", "co2", "smoke", "battery"} |->
        CASE m = "temperature" -> "Nhiet do (C)"
          [] m = "humidity" -> "Do am (%)"
          [] m = "co2" -> "CO2 (ppm)"
          [] m = "smoke" -> "Muc khoi"
          [] m = "battery" -> "Pin (%)"]

\* The metric kept from the displayed map when no filter button triggered the
\* run: a slip.
FilterByKeepsSelection(ctx_triggered) ==
    IF ctx_triggered # <<>> /\ ctx_triggered[1].id \in DOMAIN filter_map
    THEN filter_map[ctx_triggered[1].id]
    ELSE IF map_chart = None THEN "temperature" ELSE map_chart.color

\* Lines 219-231: the metric that colours the map. A prop_id "id.property" is
\* held as the record [id, property], so split(".")[0] is its id.
FilterBy(ctx_triggered) ==
    IF ctx_triggered = <<>>
    THEN "temperature"
    ELSE LET button_id == ctx_triggered[1].id
         IN IF button_id \in DOMAIN filter_map THEN filter_map[button_id]
            ELSE "temperature"

\* Lines 218-311: the callback of the filter buttons and the refresh interval.
\* Its two outputs are set together; the change of grid-store triggers the
\* callbacks that take it as input. The callback context ends with the run.
update_map ==
    /\ "update_map" \in pending
    /\ LET filter_by == FilterBy(triggered)
           acc == AcceptedInFile[map_geojson]
           n == Len(acc)
       IN \E ds \in [1..n -> Draws] :
            LET g == Assemble(acc, map_geojson, DefaultHexSize, ds)
            IN /\ map_chart' = [geojson |-> g.grid_geojson,
                                locations |-> [i \in 1..n |-> g.df_grid[i].grid_id],
                                color |-> filter_by,
                                color_continuous_scale |-> color_scales[filter_by],
                                labels |-> titles[filter_by],
                                customdata |-> [i \in 1..n |-> << g.df_grid[i].grid_id >>],
                                boundary |-> g.polygon_coords]
               /\ grid_store' = to_json(g.df_grid)
    /\ pending' = (pending \ {"update_map"}) \cup {"update_insights", "show_sensor_detail"}
    /\ triggered' = <<>>
    /\ UNCHANGED <<gen_vars, map_geojson, clickData, insights, detail>>

\* Lines 445-451: the empty state.
Placeholder == [kind |-> "placeholder"]

\* Lines 454-476: the grid id a click names, as <<id>>, or <<>> for the empty
\* state. A key whose value is None is held as a missing key.
ClickedGridId(click) ==
    LET point_data == click.points[1]
    IN IF "customdata" \in DOMAIN point_data
       THEN << point_data.customdata[1] >>
       ELSE IF "location" \in DOMAIN point_data
            THEN << point_data.location >>
            ELSE <<>>

\* Lines 443-548: the callback of a click on the map and of grid-store. The
\* 30-day history is drawn around the values of the row and is held by them.
\* Line 479: .iloc[0] of an empty selection raises IndexError, which nothing
\* in the callback catches.
show_sensor_detail ==
    /\ "show_sensor_detail" \in pending
    /\ pending' = pending \ {"show_sensor_detail"}
    /\ IF clickData = None \/ grid_store = None
       THEN detail' = Placeholder
       ELSE LET clicked == ClickedGridId(clickData)
                df == read_json(grid_store)
                rows == SelectSeq(df, LAMBDA row : row.grid_id = clicked[1])
            IN IF clicked = <<>>
               THEN detail' = Placeholder
               ELSE IF rows = <<>>
                    THEN detail' = [kind |-> "raised", error |-> "IndexError",
                                    grid_id |-> clicked[1]]
                    ELSE detail' = [kind |-> "detail", selected_sensor |-> clicked[1],
                                    matches |-> Len(rows), sensor |-> rows[1]]
    /\ UNCHANGED <<gen_vars, map_geojson, grid_store, map_chart, clickData, triggered,
                   insights>>

\* A filter button is pressed: its n_clicks triggers update_map.
PressFilter ==
    /\ pending = {}
    /\ \E id \in DOMAIN filter_map :
          triggered' = << [id |-> id, property |-> "n_clicks"] >>
    /\ pending' = {"update_map"}
    /\ UNCHANGED <<gen_vars, map_geojson, grid_store, map_chart, clickData, insights, detail>>

\* Line 98: the interval fires: its n_intervals triggers update_map.
IntervalTick ==
    /\ pending = {}
    /\ triggered' = << [id |-> "refresh-interval", property |-> "n_intervals"] >>
    /\ pending' = {"update_map"}
    /\ UNCHANGED <<gen_vars, map_geojson, grid_store, map_chart, clickData, insights, detail>>

\* A hexagon of the displayed map is clicked: the click carries the location
\* and the customdata the figure gave the hexagon (line 278).
ClickMap ==
    /\ pending = {}
    /\ map_chart # None
    /\ \E i \in 1..Len(map_chart.locations) :
          clickData' = [points |-> << [location |-> map_chart.locations[i],
                                       customdata |-> map_chart.customdata[i]] >>]
    /\ pending' = {"show_sensor_detail"}
    /\ UNCHANGED <<gen_vars, map_geojson, grid_store, map_chart, triggered, insights, detail>>

\* Line 233: the file is read on every run; it is replaced between two runs.
ReplaceBoundaryFile ==
    /\ pending = {}
    /\ map_geojson' \in FileRings \ {map_geojson}
    /\ UNCHANGED <<gen_vars, grid_store, map_chart, clickData, triggered, pending,
                   insights, detail>>

\* The page is loaded: every callback runs once, update_map with nothing
\* triggered.
AppInit ==
    /\ geojson_data = Rectangle(1, 1) /\ hex_size = DefaultHexSize
    /\ previous = None /\ result = None /\ calls = 1
    /\ Locals0(geojson_data)
    /\ map_geojson = Rectangle(6, 4)
    /\ grid_store = None /\ map_chart = None /\ clickData = None
    /\ triggered = <<>>
    /\ pending = {"update_map", "update_insights", "show_sensor_detail"}
    /\ insights = None /\ detail = None

AppNext ==
    \/ update_map \/ update_insights \/ show_sensor_detail
    \/ PressFilter \/ IntervalTick \/ ClickMap \/ ReplaceBoundaryFile

SpecApp == AppInit /\ [][AppNext]_vars

\* The dashboard before its first callback.
AppIdle ==
    /\ grid_store = None /\ map_chart = None /\ clickData = None
    /\ triggered = <<>> /\ pending = {} /\ insights = None /\ detail = None

Init == GenInit /\ map_geojson = geojson_data /\ AppIdle
Next == GenNext
Spec == Init /\ [][Next]_vars

\* The interpreter keeps executing the tiling loops of a call it has entered;
\* whether the caller calls again is the caller's choice. Every step of the
\* loops changes pc or lon_points.
SweepStep == OuterTest \/ InnerBody \/ InnerExit
SpecSweep == Spec /\ WF_<<pc, lon_points>>(SweepStep)

\* ---------------------------------------------------------------- claims
b0 == bounds(geojson_data)
InClip == pc \in {"clip", "done"}

\* Position of a feature's centre in the candidate lists.
CandidateIndex(f) ==
    CHOOSE j \in 1..Len(lon_points) :
        /\ lon_points[j] = f.properties.center_lon
        /\ lat_points[j] = f.properties.center_lat

\* The centres of candidates 1..n whose area ratio is strictly above 1/2.
RECURSIVE MajorityInside(_)
MajorityInside(n) ==
    IF n = 0 THEN <<>>
    ELSE LET rest == MajorityInside(n - 1)
             inter2 == InterArea2(lon_points[n], lat_points[n], hex_size, b0)
         IN IF 2 * inter2 > HexArea2(hex_size)
            THEN Append(rest, <<lat_points[n], lon_points[n]>>)
            ELSE rest

\* C1: the grid ids of the accepted features are 0, 1, ..., N-1 in acceptance
\* (sweep) order without gap or duplicate; the returned table has N rows, its
\* grid_id column is the same sequence, and row i carries the centre of
\* feature i.
GridIdsContiguousAndAligned ==
    /\ Len(features) = grid_id
    /\ \A i \in 1..Len(features) : features[i].properties.grid_id = i - 1
    /\ \A i, j \in 1..Len(features) :
          i < j => CandidateIndex(features[i]) < CandidateIndex(features[j])
    /\ result # None =>
          /\ Len(result.df_grid) = Len(result.grid_geojson)
          /\ \A i \in 1..Len(result.grid_geojson) :
                LET p == result.grid_geojson[i].properties
                    row == result.df_grid[i]
                IN /\ p.grid_id = i - 1
                   /\ row.grid_id = p.grid_id
                   /\ row.center_lat = p.center_lat
                   /\ row.center_lon = p.center_lon

\* C1 witness: a call has returned three cells, after rejecting a candidate
\* that precedes an accepted one.
GridIdsWitness ==
    /\ result # None
    /\ Len(result.df_grid) >= 3
    /\ CandidateIndex(result.grid_geojson[1]) > 1

\* C2: a candidate is accepted iff its area ratio is strictly above 1/2: the
\* accepted centres are exactly, and in order, the candidates seen so far with
\* 2*intersection > hexagon, and every accepted cell has a non-zero
\* intersection.
AcceptedIffMajorityInside ==
    InClip =>
        /\ centers = MajorityInside(k - 1)
        /\ \A i \in 1..Len(centers) :
              InterArea2(centers[i][2], centers[i][1], hex_size, b0) > 0

\* C2 witness: one call accepted a cell and rejected a candidate of ratio
\* exactly 1/2, a candidate that only touches the boundary, and a candidate
\* whose intersection is empty.
AcceptedIffMajorityWitness ==
    /\ pc = "done"
    /\ Len(features) >= 1
    /\ \E j \in 1..Len(lon_points) :
          2 * InterArea2(lon_points[j], lat_points[j], hex_size, b0) = HexArea2(hex_size)
    /\ \E j \in 1..Len(lon_points) :
          /\ ~ is_empty(lon_points[j], lat_points[j], hex_size, b0)
          /\ InterArea2(lon_points[j], lat_points[j], hex_size, b0) = 0
    /\ \E j \in 1..Len(lon_points) :
          is_empty(lon_points[j], lat_points[j], hex_size, b0)

\* C3: with hex_size <= 0 the call fails fast: the tiling loops never iterate
\* and the call does not return a grid.
NonPositiveHexSizeFailsFast ==
    hex_size <= 0 => (lon_points = <<>> /\ col = 0 /\ pc # "done")

\* C10: two calls with the same boundary and hex_size return the same
\* features (grid_id, centre and hexagon ring at every position) and the same
\* grid_id and centre columns, whatever the random draws were.
GeometryOf(r) ==
    [grid_geojson |-> r.grid_geojson,
     ids_and_centres |-> [i \in 1..Len(r.df_grid) |->
                            <<r.df_grid[i].grid_id, r.df_grid[i].center_lat,
                              r.df_grid[i].center_lon>>]]

SameGeometryOnRegeneration ==
    (previous # None /\ result # None) => GeometryOf(previous) = GeometryOf(result)

\* C10 witness: two calls returned at least two cells each and differ in a
\* metric of every cell.
SameGeometryWitness ==
    /\ previous # None /\ result # None
    /\ Len(result.df_grid) >= 2
    /\ Len(previous.df_grid) = Len(result.df_grid)
    /\ \A i \in 1..Len(result.df_grid) :
          /\ previous.df_grid[i].temperature # result.df_grid[i].temperature
          /\ previous.df_grid[i].smoke # result.df_grid[i].smoke

\* ---- claims on update_insights ----
Computed == grid_store # None /\ insights # None /\ insights # Loading

\* The threshold of a scan in the unit of the stored column.
Limit(kind) ==
    CASE kind = "temperature" -> 3200
      [] kind = "co2" -> 40000
      [] kind = "smoke" -> 70

Matching(df, kind) == { i \in 1..Len(df) : df[i][kind] > Limit(kind) }

\* C6: the alert list is the single nominal alert when no row has
\* temperature > 32, co2 > 400 or smoke > 70; otherwise it holds no nominal
\* alert and exactly one alert per scan with a matching row, in the order
\* temperature, co2, smoke.
AlertListShape ==
    Computed =>
        LET df == read_json(grid_store)
            kinds == [i \in 1..Len(insights.critical) |-> insights.critical[i].kind]
            one(kind) == IF Matching(df, kind) # {} THEN <<kind>> ELSE <<>>
            expected == one("temperature") \o one("co2") \o one("smoke")
        IN IF expected = <<>>
           THEN insights.critical = << [kind |-> "nominal"] >>
           ELSE kinds = expected

\* C6 witness: a table of several rows with co2 and smoke alerts but no
\* temperature alert.
AlertListWitness ==
    /\ Computed
    /\ Len(grid_store.data) >= 3
    /\ Len(insights.critical) = 2
    /\ insights.critical[1].kind = "co2"
    /\ insights.critical[2].kind = "smoke"

\* C7: a threshold alert counts exactly the rows strictly above its threshold
\* and names the matching row of maximum value, the one of lowest grid_id
\* among several.
AlertCountAndTopSensor ==
    Computed =>
        LET df == read_json(grid_store)
        IN \A a \in 1..Len(insights.critical) :
            LET alert == insights.critical[a]
            IN alert.kind # "nominal" =>
                 /\ alert.count = Cardinality(Matching(df, alert.kind))
                 /\ \E i \in Matching(df, alert.kind) :
                       /\ df[i].grid_id = alert.grid_id
                       /\ df[i][alert.kind] = alert.value
                 /\ \A j \in 1..Len(df) :
                       /\ df[j][alert.kind] <= alert.value
                       /\ df[j][alert.kind] = alert.value
                             => df[j].grid_id >= alert.grid_id

\* C7 witness: a temperature alert over three matching rows, two of them at
\* the maximum, behind a row exactly at the threshold.
AlertTopSensorWitness ==
    /\ Computed
    /\ LET df == read_json(grid_store)
       IN /\ Len(df) >= 4
          /\ df[1].temperature = 3200
          /\ insights.critical[1].kind = "temperature"
          /\ insights.critical[1].count = 3
          /\ insights.critical[1].grid_id > 1
          /\ Cardinality({ i \in 1..Len(df) :
                             df[i].temperature = insights.critical[1].value }) = 2

\* C8: the top temperature list of a table of M rows holds min(5, M) rows of
\* the table, by descending temperature and, for equal temperature, ascending
\* grid_id, and no row left out is warmer than a listed one.
TopTemperatureRanking ==
    Computed =>
        LET df == read_json(grid_store)
            top == insights.top_temperature
            listed == { top[i].grid_id : i \in 1..Len(top) }
        IN /\ Len(top) = Min(5, Len(df))
           /\ \A i \in 1..Len(top) : \E r \in 1..Len(df) :
                 /\ df[r].grid_id = top[i].grid_id
                 /\ df[r].temperature = top[i].temperature
           /\ \A i, j \in 1..Len(top) :
                 i < j => \/ top[i].temperature > top[j].temperature
                          \/ /\ top[i].temperature = top[j].temperature
                             /\ top[i].grid_id < top[j].grid_id
           /\ \A r \in 1..Len(df) : df[r].grid_id \notin listed =>
                 \A i \in 1..Len(top) : top[i].temperature >= df[r].temperature

\* C8 witness: six rows, five listed, equal temperatures inside the list and a
\* cooler row with a lower grid_id left out.
TopTemperatureWitness ==
    /\ Computed
    /\ Len(grid_store.data) = 6
    /\ Len(insights.top_temperature) = 5
    /\ insights.top_temperature[1].temperature = insights.top_temperature[2].temperature
    /\ insights.top_temperature[1].temperature > insights.top_temperature[5].temperature
    /\ \A i \in 1..5 : insights.top_temperature[i].grid_id # 0

\* C9: the low battery list holds only rows with battery < 30, by ascending
\* battery, at most 5, the lowest of the qualifying rows; without a qualifying
\* row it is the single "all good" item.
Qualifying(df) == { i \in 1..Len(df) : df[i].battery < 30 }

LowBatteryList ==
    Computed =>
        LET df == read_json(grid_store)
            low == Qualifying(df)
            items == insights.low_battery
            listed == { items[i].grid_id : i \in 1..Len(items) }
        IN IF low = {}
           THEN items = << [kind |-> "all_good"] >>
           ELSE /\ Len(items) = Min(5, Cardinality(low))
                /\ Cardinality(listed) = Len(items)
                /\ \A i \in 1..Len(items) :
                      /\ items[i].kind = "sensor"
                      /\ items[i].battery < 30
                      /\ \E r \in low :
                            /\ df[r].grid_id = items[i].grid_id
                            /\ df[r].battery = items[i].battery
                /\ \A i, j \in 1..Len(items) : i < j => items[i].battery <= items[j].battery
                /\ \A r \in low : df[r].grid_id \notin listed =>
                      \A i \in 1..Len(items) : items[i].battery <= df[r].battery

\* C9 witness: six qualifying rows of two battery levels, five of them listed.
LowBatteryWitness ==
    /\ Computed
    /\ Cardinality(Qualifying(read_json(grid_store))) = 6
    /\ Len(insights.low_battery) = 5
    /\ insights.low_battery[1].battery < insights.low_battery[5].battery

\* ---- claims on the selection ----
\* C4: show_sensor_detail resolves the clicked grid_id to exactly one row of
\* the stored table, and returns the placeholder when the id is not in the
\* table; it never ends in an exception.
SelectionResolvedOrPlaceholder ==
    detail # None =>
        \/ detail.kind = "placeholder"
        \/ detail.kind = "detail" /\ detail.matches = 1

\* The step-by-step call and the call as one operator return the same cells.
StepsAgreeWithCall ==
    /\ (InClip /\ hex_size > 0) =>
          /\ Len(lon_points) = Len(lat_points)
          /\ [i \in 1..Len(lon_points) |-> <<lon_points[i], lat_points[i]>>]
                = SweepPoints(b0.min_lon, 0, hex_size, b0)
    /\ (result # None /\ hex_size > 0) =>
          LET n == Len(result.df_grid)
              ds == [i \in 1..n |-> CHOOSE d \in Draws : TRUE]
          IN result.grid_geojson
                = generate_hex_grid_from_geojson(geojson_data, hex_size, ds).grid_geojson

\* No call with hex_size > 0 is cut short by the caps of the tiling loops.
CapsOnlyStopEndlessLoops ==
    (hex_size > 0 /\ pc = "inner") =>
        /\ Len(lon_points) < PointCap
        /\ col < ColCap

\* ---- claims on the candidate sweep ----
\* The columns and rows the sweep is to emit: column c has longitude
\* min_lon + c * 1.5 * hex_size, row j latitude min_lat + j * sqrt(3) * hex_size
\* (3 * hex_size and 2 * hex_size on the lattice).
SweepColumns ==
    { c \in 0..ColCap : b0.min_lon + c * 3 * hex_size < b0.max_lon + 3 * hex_size }

SweepRows ==
    { j \in 0..PointCap : b0.min_lat + j * 2 * hex_size < b0.max_lat + 2 * hex_size }

\* The candidates column by column, rows ascending, odd columns shifted up by
\* half the vertical pitch.
ExpectedCandidates ==
    LET nc == Cardinality(SweepColumns)
        nr == Cardinality(SweepRows)
    IN [i \in 1..(nc * nr) |->
          LET c == (i - 1) \div nr
              j == (i - 1) % nr
          IN << b0.min_lon + c * 3 * hex_size,
                b0.min_lat + j * 2 * hex_size + (IF c % 2 = 1 THEN hex_size ELSE 0) >>]

Candidates == [i \in 1..Len(lon_points) |-> <<lon_points[i], lat_points[i]>>]

\* The candidates emitted so far are the first of the expected ones, all of
\* them once the sweep is over, and the accepted cells are in ascending
\* longitude and, within a column, ascending latitude.
SweepInOrder ==
    hex_size > 0 =>
        /\ Len(lat_points) = Len(lon_points)
        /\ SweepColumns = 0..(Cardinality(SweepColumns) - 1)
        /\ SweepRows = 0..(Cardinality(SweepRows) - 1)
        /\ Len(Candidates) <= Len(ExpectedCandidates)
        /\ Candidates = SubSeq(ExpectedCandidates, 1, Len(Candidates))
        /\ InClip => Candidates = ExpectedCandidates
        /\ \A i \in 1..Len(Candidates) :
              LET c == (lon_points[i] - b0.min_lon) \div (3 * hex_size)
              IN (lat_points[i] - b0.min_lat) % (2 * hex_size)
                    = (IF c % 2 = 1 THEN hex_size ELSE 0)
        /\ \A i, j \in 1..Len(features) :
              i < j =>
                LET p == features[i].properties
                    q == features[j].properties
                IN /\ p.grid_id < q.grid_id
                   /\ \/ p.center_lon < q.center_lon
                      \/ /\ p.center_lon = q.center_lon
                         /\ p.center_lat < q.center_lat

\* C11: for hex_size > 0 the candidate sweep terminates and emits the centres
\* column by column: column c at longitude min_lon + c * 1.5 * hex_size exactly
\* while that is < max_lon + 1.5 * hex_size, rows ascending from min_lat by
\* sqrt(3) * hex_size exactly while < max_lat + sqrt(3) * hex_size, the centres
\* of odd columns and of no even column shifted up by half the vertical pitch,
\* so grid ids increase with longitude and, within a column, with latitude.
SweepTerminatesInOrder ==
    /\ [] SweepInOrder
    /\ (hex_size > 0 /\ pc = "outer") ~> InClip

\* C11 witness: a second call has returned after a sweep of at least three
\* columns of at least two rows, with accepted cells in an even and an odd
\* column.
SweepWitness ==
    /\ pc = "done" /\ calls = 2 /\ hex_size > 0
    /\ Cardinality(SweepColumns) >= 3
    /\ Cardinality(SweepRows) >= 2
    /\ Len(lon_points) = Cardinality(SweepColumns) * Cardinality(SweepRows)
    /\ \E i, j \in 1..Len(features) :
          /\ ((features[i].properties.center_lon - b0.min_lon) \div (3 * hex_size)) % 2 = 0
          /\ ((features[j].properties.center_lon - b0.min_lon) \div (3 * hex_size)) % 2 = 1

\* ---- claims on the colouring metric ----
Metrics == {"temperature", "humidity", "co2", "smoke", "battery"}

\* The metric of the control that triggered a run of update_map.
MetricOfTrigger ==
    IF triggered = <<>> THEN "temperature"
    ELSE CASE triggered[1].id = "filter-temp" -> "temperature"
           [] triggered[1].id = "filter-hum" -> "humidity"
           [] triggered[1].id = "filter-co2" -> "co2"
           [] triggered[1].id = "filter-smoke" -> "smoke"
           [] triggered[1].id = "filter-battery" -> "battery"
           [] OTHER -> "temperature"

\* C12: every run of update_map colours the map by one of temperature,
\* humidity, co2, smoke, battery, with the colour scale and the label of that
\* metric: the metric of the filter button that triggered the run, and
\* temperature for every other trigger, so a tick of the refresh interval
\* recolours by temperature whatever metric was selected before.
ColouringMetricFollowsTrigger ==
    [][update_map =>
         /\ map_chart'.color \in Metrics
         /\ map_chart'.color = MetricOfTrigger
         /\ map_chart'.color_continuous_scale = color_scales[map_chart'.color]
         /\ map_chart'.labels = titles[map_chart'.color]
         /\ (triggered # <<>> /\ triggered[1].id = "refresh-interval")
               => map_chart'.color = "temperature"]_vars

\* C12 witness: the map is coloured by battery after a press of its filter
\* button, and a tick of the refresh interval has triggered the next run of
\* update_map.
ColouringMetricWitness ==
    /\ map_chart # None
    /\ map_chart.color = "battery"
    /\ map_chart.labels = "Pin (%)"
    /\ triggered = << [id |-> "refresh-interval", property |-> "n_intervals"] >>
    /\ "update_map" \in pending

====
